---- MODULE Spec2Model ----
(***************************************************************************)
(* Model of the two artifacts of the repository:                           *)
(*   models/gcal_od.ty                  the GCAL ocular-dominance script   *)
(*   doc/Tutorials/som_retinotopy.ipynb the SOM retinotopy notebook        *)
(*                                                                         *)
(* Real-valued quantities are kept as scaled integers:                     *)
(*   positions        in units of 1/2000000 of a sheet coordinate          *)
(*   brightness scale in units of 1/10000                                  *)
(*   orientations     in units of pi/8000                                  *)
(*   strengths        in units of 1/1000                                   *)
(*   area, dim_fraction and the V1 strengths in tenths                     *)
(* A uniform random draw is a grid index k in 0..DrawSteps, mapped to      *)
(* lbound + (ubound-lbound)*k/DrawSteps.  Two numbergen objects built with *)
(* the same seed that are advanced together return the same draw, so the   *)
(* draws of one presentation are a function from seeds to grid indices.    *)
(***************************************************************************)
EXTENDS Integers, Sequences, FiniteSets, TLC

VARIABLES
    prog,               \* which artifact is being run
    p,                  \* global_params of the artifact
    pc,                 \* position in the script / notebook
    eyes, disparity_bound, position_bound, num_aff,   \* gcal_od.ty globals
    inputs,             \* per eye (aligned with eyes): the list `inputs` of pattern generators
    total_num_inputs,   \* gcal_od.ty:153, -1 until computed
    sheets,             \* names assigned in topo.sim, in registration order
    projections,        \* topo.sim.connect calls, in order
    pgs,                \* default_analysis_plotgroups
    shown,              \* index of the pattern generator being evaluated, -1 if none
    rng,                \* seed -> draw, for the numbergen objects already advanced
    pat,                \* per eye: parameters of the pattern generated, <<>> until all are drawn
    cell,               \* index in Cells of the next notebook code cell to run
    time,               \* topo.sim.time()
    times,              \* the notebook's `times` list
    k,                  \* number of entries of the current Collector call already measured
    measured,           \* log of the Collector's measurements
    cfs,                \* V1 Afferent connection fields of the notebook's model
    frac,               \* hundredths by which the simulation clock is past `time`
    until,              \* time at which the topo.sim.run in progress ends, -1 if none
    events,             \* the simulation's pending events
    generated,          \* number of patterns the Retina has generated
    received            \* number of patterns that have arrived at V1

vars == <<prog, p, pc, eyes, disparity_bound, position_bound, num_aff, inputs,
          total_num_inputs, sheets, projections, pgs, shown, rng, pat,
          cell, time, times, k, measured, cfs,
          frac, until, events, generated, received>>

gcalVars == <<eyes, disparity_bound, position_bound, num_aff, inputs,
              total_num_inputs, sheets, projections, pgs, shown, rng, pat>>

eventVars == <<frac, until, events, generated, received>>

somVars == <<cell, time, times, k, measured, cfs, eventVars>>

(***************************************************************************)
(* Bounds of the model                                                     *)
(***************************************************************************)
DrawSteps == 2          \* a random draw takes one of DrawSteps+1 grid values
MaxPatterns == 2        \* pattern generators 0..MaxPatterns-1 of each eye are evaluated
MaxIterations == 8      \* patterns the Retina generates when events are followed one by one

(***************************************************************************)
(* Small helpers                                                           *)
(***************************************************************************)
Abs(n) == IF n < 0 THEN -n ELSE n

Max(a, b) == IF a < b THEN b ELSE a

Range(s) == {s[n] : n \in DOMAIN s}

RECURSIVE SumSeq(_)
SumSeq(s) == IF s = <<>> THEN 0 ELSE Head(s) + SumSeq(Tail(s))

RECURSIVE Flatten(_)
Flatten(ss) == IF ss = <<>> THEN <<>> ELSE Head(ss) \o Flatten(Tail(ss))

SelectStrength(s) == [n \in DOMAIN s |-> s[n].strength]

(***************************************************************************)
(* gcal_od.ty: parameters                                                  *)
(***************************************************************************)
DimChoices == SUBSET {"or", "od", "dy"}

GcalParams ==
    [dataset : {"Gaussian", "Nature"},
     num_inputs : {1, 2},
     dims : DimChoices,
     area : {5, 10, 20},
     gain_control : BOOLEAN,
     dim_fraction : {0, 7},
     max_disparity : {0, 4},
     aff_strength : {10},
     exc_strength : {0, 17},
     inh_strength : {0, 14}]

\* the parameter values under which presentations are followed; the
\* generated patterns do not depend on gain_control or the V1 strengths, and
\* with these values of area and num_inputs each eye has two Gaussian generators
GcalRunParams ==
    {q \in GcalParams : /\ q.area = 10 /\ q.num_inputs = 2 /\ q.gain_control
                        /\ q.exc_strength = 17 /\ q.inh_strength = 14}

center_polarities == <<"On", "Off">>

input_seed == 500

\* gcal_od.ty:124,130-131
EyesOdOnly(dims) == IF "od" \in dims THEN <<"Left", "Right">> ELSE <<"">>
Eyes(dims) ==
    IF "od" \in dims \/ "dy" \in dims THEN <<"Left", "Right">> ELSE <<"">>

\* gcal_od.ty:125,133-134; twice the bound would be max_disparity*0.041665
DisparityBound(dims, max_disparity) ==
    IF "dy" \in dims THEN max_disparity * 41665 ELSE 0

\* gcal_od.ty:126,133-136
PositionBound(dims, area, max_disparity) ==
    IF "dy" \in dims /\ max_disparity > 0
    THEN area * 100000 + 400000
    ELSE area * 100000 + 500000

\* gcal_od.ty:153  int(p.num_inputs*p.area*p.area), area in tenths
TotalNumInputs(num_inputs, area) == (num_inputs * area * area) \div 100

(***************************************************************************)
(* numbergen.UniformRandom and the pattern generators                      *)
(***************************************************************************)
UniformRandom(lbound, ubound, draw) ==
    lbound + ((ubound - lbound) * draw) \div DrawSteps

\* (-1)**(e=='Left')
SignSame(e) == 1
Sign(e) == IF e = "Left" THEN -1 ELSE 1

\* gcal_od.ty:154-164: the generator of pattern i for eye e, with the
\* globals it captures when it is built
GaussianInput(e, i, pb, db, df) ==
    [type |-> "Gaussian", e |-> e, i |-> i,
     xseed |-> input_seed + 6 * i,     xbound |-> pb,
     dseed |-> input_seed + 1 + 6 * i, dbound |-> db,
     yseed |-> input_seed + 2 + 6 * i, ybound |-> 1500000,
     oseed |-> input_seed + 3 + 6 * i, obound |-> 8000,
     sseed |-> input_seed + 5 + 6 * i, dim_fraction |-> df]

\* gcal_od.ty:171-181
NatureInput(e, i, db, df) ==
    [type |-> "Nature", e |-> e, i |-> i,
     xseed |-> input_seed + 5 * i,     xbound |-> 1500000,
     dseed |-> input_seed + 1 + 5 * i, dbound |-> db,
     yseed |-> input_seed + 2 + 5 * i, ybound |-> 1500000,
     oseed |-> input_seed + 3 + 5 * i, obound |-> 1000,
     sseed |-> input_seed + 4 + 5 * i, dim_fraction |-> df]

NumImages == 25

\* gcal_od.ty:151-182: the list `inputs` built for eye e, kept as the
\* comprehension that builds it: its length and the globals it captures
Inputs(e, q, pb, db) ==
    [type |-> q.dataset, e |-> e,
     len |-> IF q.dataset = "Gaussian"
             THEN TotalNumInputs(q.num_inputs, q.area) ELSE NumImages,
     pb |-> pb, db |-> db, df |-> q.dim_fraction]

\* inputs[i] of such a list
Generator(inp, i) ==
    IF inp.type = "Gaussian"
    THEN GaussianInput(inp.e, i, inp.pb, inp.db, inp.df)
    ELSE NatureInput(inp.e, i, inp.db, inp.df)

Seeds(g) == {g.xseed, g.dseed, g.yseed, g.oseed, g.sseed}

\* gcal_od.ty:161-163: the conditional is parenthesised, so both branches
\* are multiplied by dim_fraction and offset by 1-dim_fraction
GaussianScale(e, df, u) ==
    (10 - df) * 1000 + df * (IF e = "Right" THEN 2000 - u ELSE u)

\* gcal_od.ty:178-180: no parentheses around the conditional, which binds
\* weaker than + and *: ((1-df) + df*(2.0-U)) if e=='Right' else U
NatureScale(e, df, u) ==
    IF e = "Right" THEN (10 - df) * 1000 + df * (2000 - u) ELSE u * 10

Scale(g, u) ==
    IF g.type = "Gaussian" THEN GaussianScale(g.e, g.dim_fraction, u)
    ELSE NatureScale(g.e, g.dim_fraction, u)

\* the parameters generator g produces when its numbergen objects draw `draws`
Evaluate(g, draws) ==
    [e |-> g.e,
     x |-> UniformRandom(-g.xbound, g.xbound, draws[g.xseed])
           + UniformRandom(-g.dbound, g.dbound, draws[g.dseed]) * Sign(g.e),
     d |-> UniformRandom(-g.dbound, g.dbound, draws[g.dseed]),
     y |-> UniformRandom(-g.ybound, g.ybound, draws[g.yseed]),
     orientation |-> UniformRandom(-g.obound, g.obound, draws[g.oseed]),
     u |-> UniformRandom(0, 2000, draws[g.sseed]),
     scale |-> Scale(g, UniformRandom(0, 2000, draws[g.sseed]))]

(***************************************************************************)
(* gcal_od.ty: sheets and projections                                      *)
(***************************************************************************)
\* gcal_od.ty:187-204: the names assigned in topo.sim in one pass of `for e in eyes`
EyeSheets(e) ==
    <<e \o "Retina">> \o [n \in 1..Len(center_polarities) |-> e \o "LGN" \o center_polarities[n]]

\* gcal_od.ty:249
LateralGCStrengthUndivided(es) == 600
LateralGCStrength(es) == 600 \div Len(es)

\* gcal_od.ty:224-228: Composite(generators=[...], operator=numpy.subtract)
on_weights == [operator |-> "subtract", generators |-> <<"centerg", "surroundg">>]

off_weights == [operator |-> "subtract", generators |-> <<"surroundg", "centerg">>]

\* the weights generator a connect call names
WeightsGenerator(name) ==
    CASE name = "on_weights" -> on_weights
      [] name = "off_weights" -> off_weights
      [] OTHER -> [operator |-> "none", generators |-> <<name>>]

\* gcal_od.ty:210  V1's BoundingBox(radius=p.area/2.0), area in tenths
V1Radius(area) == area * 100000

\* gcal_od.ty:236-240
RetinaToLGNSwapped(e, l) ==
    [src |-> e \o "Retina", dest |-> e \o "LGN" \o l, name |-> "Afferent",
     strength |-> 2330, weights |-> IF l = "Off" THEN "on_weights" ELSE "off_weights"]
RetinaToLGN(e, l) ==
    [src |-> e \o "Retina", dest |-> e \o "LGN" \o l, name |-> "Afferent",
     strength |-> 2330, weights |-> IF l = "On" THEN "on_weights" ELSE "off_weights"]

\* gcal_od.ty:243-250
LateralGC(e, l, es, gain_control) ==
    IF gain_control
    THEN [n \in 1..Len(es) |->
            [src |-> es[n] \o "LGN" \o l, dest |-> e \o "LGN" \o l,
             name |-> es[n] \o "LateralGC",
             strength |-> LateralGCStrength(es), weights |-> "lgn_surroundg"]]
    ELSE <<>>

\* gcal_od.ty:253-260
LGNToV1(e, l, q) ==
    [src |-> e \o "LGN" \o l, dest |-> "V1", name |-> e \o "LGN" \o l \o "Afferent",
     strength |-> q.aff_strength * (IF q.gain_control THEN 150 ELSE 100),
     weights |-> "GaussianCloud"]

\* gcal_od.ty:235-260: one pass of `for l in center_polarities`
ConnectPolarity(e, l, es, q) ==
    <<RetinaToLGN(e, l)>> \o LateralGC(e, l, es, q.gain_control) \o <<LGNToV1(e, l, q)>>

\* gcal_od.ty:263-273
V1LateralUnsigned(q) ==
    << [src |-> "V1", dest |-> "V1", name |-> "LateralExcitatory",
        strength |-> q.exc_strength * 100, weights |-> "Gaussian"],
       [src |-> "V1", dest |-> "V1", name |-> "LateralInhibitory",
        strength |-> q.inh_strength * 100, weights |-> "GaussianCloud"] >>
V1Lateral(q) ==
    << [src |-> "V1", dest |-> "V1", name |-> "LateralExcitatory",
        strength |-> q.exc_strength * 100, weights |-> "Gaussian"],
       [src |-> "V1", dest |-> "V1", name |-> "LateralInhibitory",
        strength |-> (-1) * q.inh_strength * 100, weights |-> "GaussianCloud"] >>

\* gcal_od.ty:295-301
preference_maps ==
    << <<"od", "Ocular Preference">>, <<"or", "Orientation Preference">>,
       <<"dy", "PhaseDisparity Preference">> >>

Pgs(dims) ==
    SelectSeq([n \in 1..Len(preference_maps) |->
                   IF preference_maps[n][1] \in dims THEN preference_maps[n][2] ELSE ""],
              LAMBDA s : s # "")
    \o <<"Position Preference", "Activity">>

(***************************************************************************)
(* gcal_od.ty: the script, statement by statement                          *)
(***************************************************************************)
\* gcal_od.ty:123-145
Setup ==
    /\ prog = "gcal_od" /\ pc = "setup"
    /\ eyes' = Eyes(p.dims)
    /\ disparity_bound' = DisparityBound(p.dims, p.max_disparity)
    /\ position_bound' = PositionBound(p.dims, p.area, p.max_disparity)
    /\ num_aff' = Len(center_polarities) * Len(Eyes(p.dims))
    /\ pc' = "sheets"
    /\ UNCHANGED <<prog, p, inputs, total_num_inputs, sheets, projections, pgs,
                   shown, rng, pat, somVars>>

\* gcal_od.ty:150-204: one pass of `for e in eyes`
CreateEyeSheets ==
    /\ prog = "gcal_od" /\ pc = "sheets"
    /\ Len(inputs) < Len(eyes)
    /\ LET e == eyes[Len(inputs) + 1] IN
         /\ inputs' = Append(inputs, Inputs(e, p, position_bound, disparity_bound))
         /\ total_num_inputs' = IF p.dataset = "Gaussian"
                                THEN TotalNumInputs(p.num_inputs, p.area)
                                ELSE total_num_inputs
         /\ sheets' = sheets \o EyeSheets(e)
    /\ UNCHANGED <<prog, p, pc, eyes, disparity_bound, position_bound, num_aff,
                   projections, pgs, shown, rng, pat, somVars>>

\* gcal_od.ty:208-213
CreateV1 ==
    /\ prog = "gcal_od" /\ pc = "sheets"
    /\ Len(inputs) = Len(eyes)
    /\ sheets' = Append(sheets, "V1")
    /\ pc' = "connect"
    /\ UNCHANGED <<prog, p, eyes, disparity_bound, position_bound, num_aff, inputs,
                   total_num_inputs, projections, pgs, shown, rng, pat, somVars>>

\* number of passes of the loop at gcal_od.ty:234 already made
EyesConnected ==
    Cardinality({n \in 1..Len(eyes) :
                    \E c \in Range(projections) : c.src = eyes[n] \o "Retina"})

\* gcal_od.ty:234-260: one pass of `for e in eyes`
ConnectEye ==
    /\ prog = "gcal_od" /\ pc = "connect"
    /\ EyesConnected < Len(eyes)
    /\ LET e == eyes[EyesConnected + 1] IN
         projections' = projections \o
             Flatten([n \in 1..Len(center_polarities) |->
                         ConnectPolarity(e, center_polarities[n], eyes, p)])
    /\ UNCHANGED <<prog, p, pc, eyes, disparity_bound, position_bound, num_aff, inputs,
                   total_num_inputs, sheets, pgs, shown, rng, pat, somVars>>

\* gcal_od.ty:263-313
ConnectV1Lateral ==
    /\ prog = "gcal_od" /\ pc = "connect"
    /\ EyesConnected = Len(eyes)
    /\ projections' = projections \o V1Lateral(p)
    /\ pgs' = Pgs(p.dims)
    /\ pc' = "loaded"
    /\ UNCHANGED <<prog, p, eyes, disparity_bound, position_bound, num_aff, inputs,
                   total_num_inputs, sheets, shown, rng, pat, somVars>>

\* A presentation starts: the GeneratorSheets turn to pattern generator i
BeginPresent ==
    /\ prog = "gcal_od" /\ pc = "loaded"
    /\ shown = -1 \/ pat # <<>>
    /\ \E i \in 0..(MaxPatterns - 1) :
         /\ i < inputs[1].len
         /\ shown' = i
    /\ rng' = <<>>
    /\ pat' = <<>>
    /\ UNCHANGED <<prog, p, pc, eyes, disparity_bound, position_bound, num_aff, inputs,
                   total_num_inputs, sheets, projections, pgs, somVars>>

Undrawn == Seeds(Generator(inputs[1], shown)) \ DOMAIN rng

\* The numbergen objects of the next seed are advanced, in every eye
\* together; once all are drawn, every eye's pattern is generated.
Draw ==
    /\ prog = "gcal_od" /\ pc = "loaded"
    /\ shown >= 0 /\ Undrawn # {}
    /\ LET s == CHOOSE s \in Undrawn : \A o \in Undrawn : s <= o IN
         \E d \in 0..DrawSteps :
           LET r == [o \in DOMAIN rng \cup {s} |-> IF o = s THEN d ELSE rng[o]] IN
             /\ rng' = r
             /\ pat' = IF Undrawn = {s}
                        THEN [n \in 1..Len(eyes) |-> Evaluate(Generator(inputs[n], shown), r)]
                        ELSE <<>>
    /\ UNCHANGED <<prog, p, pc, eyes, disparity_bound, position_bound, num_aff, inputs,
                   total_num_inputs, sheets, projections, pgs, shown, somVars>>

\* the state when the script starts with its parameters taken from params
ScriptStart(params) ==
    /\ prog = "gcal_od"
    /\ p \in params
    /\ pc = "setup"
    /\ eyes = <<"">>
    /\ disparity_bound = 0
    /\ position_bound = 0
    /\ num_aff = 0
    /\ inputs = <<>>
    /\ total_num_inputs = -1
    /\ sheets = <<>>
    /\ projections = <<>>
    /\ pgs = <<>>
    /\ shown = -1
    /\ rng = <<>>
    /\ pat = <<>>
    /\ cell = 0
    /\ time = 0
    /\ times = <<>>
    /\ k = 0
    /\ measured = <<>>
    /\ cfs = <<>>
    /\ frac = 0
    /\ until = -1
    /\ events = {}
    /\ generated = 0
    /\ received = 0

GcalInit == ScriptStart(GcalParams)

\* the script, run to its end
GcalNext ==
    \/ Setup
    \/ CreateEyeSheets
    \/ CreateV1
    \/ ConnectEye
    \/ ConnectV1Lateral

SpecGcal == GcalInit /\ [][GcalNext]_vars

GcalRunInit == ScriptStart(GcalRunParams)

\* the script, followed by presentations of its input patterns
GcalRunNext ==
    \/ Setup
    \/ CreateEyeSheets
    \/ CreateV1
    \/ ConnectEye
    \/ ConnectV1Lateral
    \/ BeginPresent
    \/ Draw

SpecGcalRun == GcalRunInit /\ [][GcalRunNext]_vars

(***************************************************************************)
(* som_retinotopy.ipynb: the model definition                              *)
(* Sheet coordinates are in units of 1/240; a sheet with default bounds is *)
(* the unit square centred on the origin, -120..120 in each direction.     *)
(***************************************************************************)
\* som_retinotopy.ipynb:102-124: the defaults declared by p.add
SomDefaults ==
    [retina_density |-> 10, cortex_density |-> 10, input_seed |-> 0,
     weight_seed |-> 0, radius_0 |-> 1000, alpha_0 |-> 420]

\* the values the customisation cell may be edited to set (som_retinotopy.ipynb:143-144,154)
RetinaDensities == {10, 24}
CortexDensities == {10, 40}

\* som_retinotopy.ipynb:845,849: other values the customisation cell may
\* set, in thousandths for radius_0 (1.0, 0.1, 0.01)
Radii == {1000, 100, 10}
InputSeeds == {0, 1}

\* som_retinotopy.ipynb:843: the cell changes one of the parameter values
Customizations ==
    {[SomDefaults EXCEPT !.retina_density = rd, !.cortex_density = cd] :
        rd \in RetinaDensities, cd \in CortexDensities}
    \cup {[SomDefaults EXCEPT !.radius_0 = r] : r \in Radii}
    \cup {[SomDefaults EXCEPT !.input_seed = s] : s \in InputSeeds}

(***************************************************************************)
(* The neighbourhood radius of V1's KernelMax, in units of 1/10000.        *)
(* exp(-t/time_constant) is kept in fixed point with 32768 for 1.0 and     *)
(* built from its values for 1, time_constant/32 and time_constant         *)
(* iterations.                                                             *)
(***************************************************************************)
\* som_retinotopy.ipynb:186  time_constant=40000/5.0
TimeConstant == 40000 \div 5

\* som_retinotopy.ipynb:183  bounds=(0.5/40,None)
RadiusNoLowerBound == 0 \div 40
RadiusLowerBound == 5000 \div 40

FixedOne == 32 * 1024

\* 32768*exp(-1/8000), 32768*exp(-250/8000) and 32768*exp(-1), rounded
ExpOneStep == 32764
ExpChunk == 31760
ExpTimeConstant == 12055

RECURSIVE DecayFactor(_)
DecayFactor(t) ==
    IF t <= 0 THEN FixedOne
    ELSE IF t >= TimeConstant
         THEN (DecayFactor(t - TimeConstant) * ExpTimeConstant) \div FixedOne
    ELSE IF t >= TimeConstant \div 32
         THEN (DecayFactor(t - TimeConstant \div 32) * ExpChunk) \div FixedOne
         ELSE (DecayFactor(t - 1) * ExpOneStep) \div FixedOne

\* numbergen.ExponentialDecay(starting_value, time_constant) at time t
ExponentialDecay(starting_value, t) == (starting_value * DecayFactor(t)) \div FixedOne

\* numbergen.BoundedNumber(bounds=(lower, None), generator): values below
\* the bound are replaced by the bound
BoundedNumber(lower, value) == IF value < lower THEN lower ELSE value

\* som_retinotopy.ipynb:181-186: kernel_radius is a dynamic parameter, a
\* function of the simulation time at which it is read
KernelRadius ==
    BoundedNumber(RadiusLowerBound, ExponentialDecay(p.radius_0 * 10, time))

\* centre of unit c (0-based) along one axis of a unit-square sheet of density d
UnitCentre(c, d) == -120 + ((2 * c + 1) * 120) \div d

\* som_retinotopy.ipynb:192: BoundingBox(radius=1.0) centred on x, along one axis
CFBoundsLocal(x) == [lo |-> x - 80, hi |-> x + 80]
CFBounds(x) == [lo |-> x - 240, hi |-> x + 240]

\* indices of the Retina units whose centres lie in the bounds b, along one axis
UnitsIn(b, d) == {c \in 0..(d - 1) : b.lo <= UnitCentre(c, d) /\ UnitCentre(c, d) <= b.hi}

\* som_retinotopy.ipynb:188-197: the connection field of the V1 unit in
\* row r, column c: the rows and columns of the Retina it has weights from
ConnectionField(r, c, q) ==
    [rows |-> UnitsIn(CFBounds(UnitCentre(r, q.cortex_density)), q.retina_density),
     cols |-> UnitsIn(CFBounds(UnitCentre(c, q.cortex_density)), q.retina_density)]

ConnectionFields(q) ==
    [u \in (0..(q.cortex_density - 1)) \X (0..(q.cortex_density - 1)) |->
        ConnectionField(u[1], u[2], q)]

(***************************************************************************)
(* som_retinotopy.ipynb: the code cells, in order                          *)
(***************************************************************************)
\* som_retinotopy.ipynb:478  topo.sim.run(4)
FirstRun == 4

\* som_retinotopy.ipynb:513  topo.sim.run(245)
SecondRunAbsolute == 245 + 5
SecondRun == 245

\* som_retinotopy.ipynb:353  input_pattern.anim(30, offset=0.05)
AnimFrames == 30

Passive(line) == [kind |-> "passive", line |-> line, arg |-> 0]

Cells ==
    << Passive(46),                                       \* %reload_ext, %opts, %timer start
       [kind |-> "params", line |-> 66, arg |-> 0],       \* imports, p.add(...)
       [kind |-> "customize", line |-> 143, arg |-> 0],   \* p.retina_density=, p.cortex_density=
       [kind |-> "model", line |-> 161, arg |-> 0],       \* sheets and projection
       Passive(216),                                      \* imports
       Passive(247),                                      \* topo.sim.V1.Afferent.grid()
       Passive(273),                                      \* cog_data = measure_cog()
       Passive(291), Passive(308), Passive(327),          \* views of cog_data
       [kind |-> "anim", line |-> 353, arg |-> AnimFrames],      \* input_pattern.anim(30, offset=0.05)
       Passive(372),                                      \* c = Collector(); c.collect(...)
       [kind |-> "collect", line |-> 400, arg |-> "one"], \* data = c(times=[1])
       Passive(410), Passive(436), Passive(458),          \* views of data
       [kind |-> "run", line |-> 478, arg |-> FirstRun],        \* topo.sim.run(4)
       Passive(496),                                      \* projection_view()
       [kind |-> "run", line |-> 513, arg |-> SecondRun],      \* topo.sim.run(245)
       [kind |-> "times", line |-> 532, arg |-> 1],       \* times = [topo.sim.time()*i ...]
       [kind |-> "collect", line |-> 544, arg |-> "times"],
       Passive(561), Passive(578), Passive(597),
       [kind |-> "times", line |-> 623, arg |-> 2],       \* times = [5000+(250*i) ...]
       [kind |-> "collect", line |-> 635, arg |-> "times"],
       Passive(645), Passive(670), Passive(680),
       [kind |-> "times", line |-> 704, arg |-> 3],       \* times = [10000+(500*i) ...]
       [kind |-> "collect", line |-> 716, arg |-> "times"],
       Passive(726), Passive(743), Passive(753), Passive(779),
       Passive(797), Passive(814), Passive(831),
       Passive(861) >>                                    \* %timer

\* som_retinotopy.ipynb:532  [topo.sim.time()*i for i in range(1,21)]
TimesAt5000From0(t) == [i \in 1..20 |-> t * (i - 1)]
TimesAt5000(t) == [i \in 1..20 |-> t * i]

\* som_retinotopy.ipynb:623  [5000+(250*i) for i in range(1,21)]
TimesAt10000 == [i \in 1..20 |-> 5000 + (250 * i)]

\* som_retinotopy.ipynb:704  [10000+(500*i) for i in range(1,41)]
TimesAt30000From0 == [i \in 1..40 |-> 10000 + (500 * (i - 1))]
TimesAt30000 == [i \in 1..40 |-> 10000 + (500 * i)]

TimesCell(n, t) ==
    CASE n = 1 -> TimesAt5000(t)
      [] n = 2 -> TimesAt10000
      [] n = 3 -> TimesAt30000

\* topo.sim.run(duration): the simulation time advances by duration
Run(t, duration) == t + Max(duration, 0)

\* input_pattern.anim(duration, offset): the frames are drawn inside
\* `with time_fn as t`, which moves the time to offset and then by one
\* timestep per frame, and puts back the time it found when it exits
Anim(t, duration) == t

\* the times argument of a Collector call
CollectTimes(arg) == IF arg = "one" THEN <<1>> ELSE times

(***************************************************************************)
(* The simulation's event queue.  Event times are in hundredths of the     *)
(* time unit; Period is 1.0, so the clock stands at time*Period + frac.    *)
(***************************************************************************)
\* som_retinotopy.ipynb:167  sheet.GeneratorSheet.period = 1.0
Period == 100

\* som_retinotopy.ipynb:168  sheet.GeneratorSheet.phase = 0.05
Phase == 5

\* som_retinotopy.ipynb:188  topo.sim.connect('Retina','V1', ..., delay=0.05
DelayWholeStep == 95 + 5
Delay == 5

GenerateEvent(at) == [at |-> at, kind |-> "generate", pattern |-> <<>>]
DeliverEvent(at, pattern) == [at |-> at, kind |-> "deliver", pattern |-> pattern]

\* som_retinotopy.ipynb:173-174: the generators of the Gaussian's centre,
\* bounds in 1/240 of the sheet coordinate
XGenNamedAsY(q) == [name |-> "ygen", lbound |-> -120, ubound |-> 120, seed |-> q.input_seed]
XGen(q) == [name |-> "xgen", lbound |-> -120, ubound |-> 120, seed |-> q.input_seed]
YGen(q) == [name |-> "ygen", lbound |-> -120, ubound |-> 120, seed |-> q.input_seed]

\* numbergen.TimeAwareRandomState with time_dependent = True: the value at
\* a time is a function of the object's name, its seed and that time, so
\* name and seed together identify a stream
StreamKey(g) == <<g.name, g.seed>>
Streams(q) == {StreamKey(XGen(q)), StreamKey(YGen(q))}

\* the centre <<x, y>> of the Gaussian when the streams stand at draws h
InputPattern(q, h) ==
    << UniformRandom(XGen(q).lbound, XGen(q).ubound, h[StreamKey(XGen(q))]),
       UniformRandom(YGen(q).lbound, YGen(q).ubound, h[StreamKey(YGen(q))]) >>

\* Simulation.run starts the event processors not yet started:
\* GeneratorSheet.start() enqueues its periodic generation at now + phase
Started(evs, t) == IF evs = {} THEN {GenerateEvent(t * Period + Phase)} ELSE evs

\* the next event to process in the run in progress
Due(e) ==
    /\ until # -1
    /\ e \in events
    /\ \A f \in events : e.at <= f.at
    /\ e.at <= until * Period

\* Simulation.run up to the integer time t, taken as one step: every event
\* up to t has been processed, the next generation is pending
Settled(t) ==
    /\ frac' = 0
    /\ until' = -1
    /\ events' = {GenerateEvent(t * Period + Phase)}
    /\ generated' = t
    /\ received' = t

AtCell(kind) == prog = "som_retinotopy" /\ cell <= Len(Cells) /\ Cells[cell].kind = kind

\* cells that neither change the model nor advance the simulation:
\* imports, magics, plots, measure_cog() and the creation of the Collector
RunPassiveCell ==
    /\ AtCell("passive")
    /\ cell' = cell + 1
    /\ UNCHANGED <<prog, p, pc, gcalVars, time, times, k, measured, cfs, eventVars>>

\* som_retinotopy.ipynb:66-124
RunParamsCell ==
    /\ AtCell("params")
    /\ p' = SomDefaults
    /\ cell' = cell + 1
    /\ UNCHANGED <<prog, pc, gcalVars, time, times, k, measured, cfs, eventVars>>

\* som_retinotopy.ipynb:143-144
RunCustomizeCell ==
    /\ AtCell("customize")
    /\ \E c \in Customizations :
         p' = [p EXCEPT !.retina_density = c.retina_density,
                        !.cortex_density = c.cortex_density,
                        !.radius_0 = c.radius_0,
                        !.input_seed = c.input_seed]
    /\ cell' = cell + 1
    /\ UNCHANGED <<prog, pc, gcalVars, time, times, k, measured, cfs, eventVars>>

\* som_retinotopy.ipynb:161-199
RunModelCell ==
    /\ AtCell("model")
    /\ sheets' = <<"Retina", "V1">>
    /\ projections' = <<[src |-> "Retina", dest |-> "V1", name |-> "Afferent",
                         strength |-> 1000, weights |-> "UniformRandom"]>>
    /\ cfs' = ConnectionFields(p)
    /\ cell' = cell + 1
    /\ UNCHANGED <<prog, p, pc, eyes, disparity_bound, position_bound, num_aff, inputs,
                   total_num_inputs, pgs, shown, rng, pat, time, times, k, measured,
                   eventVars>>

\* som_retinotopy.ipynb:353
RunAnimCell ==
    /\ AtCell("anim")
    /\ time' = Anim(time, Cells[cell].arg)
    /\ cell' = cell + 1
    /\ UNCHANGED <<prog, p, pc, gcalVars, times, k, measured, cfs, eventVars>>

\* som_retinotopy.ipynb:478,513
RunRunCell ==
    /\ AtCell("run")
    /\ time' = Run(time, Cells[cell].arg)
    /\ Settled(Run(time, Cells[cell].arg))
    /\ cell' = cell + 1
    /\ UNCHANGED <<prog, p, pc, gcalVars, times, k, measured, cfs>>

\* som_retinotopy.ipynb:532,623,704
RunTimesCell ==
    /\ AtCell("times")
    /\ times' = TimesCell(Cells[cell].arg, time)
    /\ cell' = cell + 1
    /\ UNCHANGED <<prog, p, pc, gcalVars, time, k, measured, cfs, eventVars>>

\* som_retinotopy.ipynb:400,544,635,716: one pass of the Collector's loop
\* over its times: run the simulation up to the requested time, measure
Collect ==
    /\ AtCell("collect")
    /\ LET ts == CollectTimes(Cells[cell].arg)
           t == ts[k + 1]
       IN /\ k < Len(ts)
          /\ time' = Run(time, t - time)
          /\ Settled(Run(time, t - time))
          /\ measured' = Append(measured,
                 [requested |-> t, at |-> time, time |-> Run(time, t - time)])
          /\ IF k + 1 = Len(ts)
             THEN cell' = cell + 1 /\ k' = 0
             ELSE cell' = cell /\ k' = k + 1
    /\ UNCHANGED <<prog, p, pc, gcalVars, times, cfs>>

SomInit ==
    /\ prog = "som_retinotopy"
    /\ p = <<>>
    /\ pc = "notebook"
    /\ eyes = <<>>
    /\ disparity_bound = 0
    /\ position_bound = 0
    /\ num_aff = 0
    /\ inputs = <<>>
    /\ total_num_inputs = -1
    /\ sheets = <<>>
    /\ projections = <<>>
    /\ pgs = <<>>
    /\ shown = -1
    /\ rng = <<>>
    /\ pat = <<>>
    /\ cell = 1
    /\ time = 0
    /\ times = <<>>
    /\ k = 0
    /\ measured = <<>>
    /\ cfs = <<>>
    /\ frac = 0
    /\ until = -1
    /\ events = {}
    /\ generated = 0
    /\ received = 0

SomNext ==
    \/ RunPassiveCell
    \/ RunParamsCell
    \/ RunCustomizeCell
    \/ RunModelCell
    \/ RunAnimCell
    \/ RunRunCell
    \/ RunTimesCell
    \/ Collect

SpecSom == SomInit /\ [][SomNext]_vars

(***************************************************************************)
(* The notebook with topo.sim.run followed event by event, for the first   *)
(* MaxIterations patterns.                                                 *)
(***************************************************************************)
\* som_retinotopy.ipynb:478,513  topo.sim.run(duration) is entered
StartRun ==
    /\ AtCell("run")
    /\ until = -1
    /\ until' = Run(time, Cells[cell].arg)
    /\ events' = Started(events, time)
    /\ UNCHANGED <<prog, p, pc, gcalVars, cell, time, times, k, measured, cfs,
                   frac, generated, received>>

\* som_retinotopy.ipynb:400: the Collector runs the simulation up to the
\* next of its times
StartCollect ==
    /\ AtCell("collect")
    /\ until = -1
    /\ LET ts == CollectTimes(Cells[cell].arg)
       IN /\ k < Len(ts)
          /\ until' = Run(time, ts[k + 1] - time)
    /\ events' = Started(events, time)
    /\ UNCHANGED <<prog, p, pc, gcalVars, cell, time, times, k, measured, cfs,
                   frac, generated, received>>

\* som_retinotopy.ipynb:166-176: the Retina draws x and y, generates the
\* pattern, sends it along Afferent and schedules its next generation
Generate ==
    /\ generated < MaxIterations
    /\ \E e \in events :
         /\ Due(e)
         /\ e.kind = "generate"
         /\ time' = e.at \div Period
         /\ frac' = e.at % Period
         /\ \E h \in [Streams(p) -> 0..DrawSteps] :
              events' = (events \ {e}) \cup {GenerateEvent(e.at + Period),
                                            DeliverEvent(e.at + Delay, InputPattern(p, h))}
    /\ generated' = generated + 1
    /\ UNCHANGED <<prog, p, pc, gcalVars, cell, times, k, measured, cfs, until, received>>

\* som_retinotopy.ipynb:188: the pattern arrives at V1 after the delay
Deliver ==
    /\ \E e \in events :
         /\ Due(e)
         /\ e.kind = "deliver"
         /\ time' = e.at \div Period
         /\ frac' = e.at % Period
         /\ events' = events \ {e}
    /\ received' = received + 1
    /\ UNCHANGED <<prog, p, pc, gcalVars, cell, times, k, measured, cfs, until, generated>>

NothingDue == until # -1 /\ \A e \in events : e.at > until * Period

\* topo.sim.run returns: the clock is moved to the end of the run
FinishRun ==
    /\ AtCell("run")
    /\ NothingDue
    /\ time' = until
    /\ frac' = 0
    /\ until' = -1
    /\ cell' = cell + 1
    /\ UNCHANGED <<prog, p, pc, gcalVars, times, k, measured, cfs,
                   events, generated, received>>

\* the Collector measures at the time it asked for and goes on
FinishCollect ==
    /\ AtCell("collect")
    /\ NothingDue
    /\ time' = until
    /\ frac' = 0
    /\ until' = -1
    /\ LET ts == CollectTimes(Cells[cell].arg)
       IN /\ measured' = Append(measured,
                 [requested |-> ts[k + 1], at |-> time, time |-> until])
          /\ IF k + 1 = Len(ts)
             THEN cell' = cell + 1 /\ k' = 0
             ELSE cell' = cell /\ k' = k + 1
    /\ UNCHANGED <<prog, p, pc, gcalVars, times, cfs, events, generated, received>>

SomEventsNext ==
    \/ RunPassiveCell
    \/ RunParamsCell
    \/ RunCustomizeCell
    \/ RunModelCell
    \/ RunAnimCell
    \/ StartRun
    \/ StartCollect
    \/ Generate
    \/ Deliver
    \/ FinishRun
    \/ FinishCollect

SpecSomEvents == SomInit /\ [][SomEventsNext]_vars

(***************************************************************************)
(* Properties of gcal_od.ty                                                *)
(***************************************************************************)
Generated == prog = "gcal_od" /\ pc = "loaded" /\ pat # <<>>

TwoEyes == Len(eyes) = 2

\* C1: for both datasets and every eye the brightness scale of a pattern is
\* (1-dim_fraction) + dim_fraction*r, with r = u in the Left (or only) eye
\* and r = 2-u in the Right eye for the same draw u; so every scale lies in
\* [1-dim_fraction, 1+dim_fraction], the Left and Right scales sum to 2,
\* and with dim_fraction = 0 every scale is exactly 1.
C1_ScaleDimmedInBothEyes ==
    Generated =>
        /\ \A n \in 1..Len(eyes) :
             /\ pat[n].scale = (10 - p.dim_fraction) * 1000 + p.dim_fraction *
                    (IF eyes[n] = "Right" THEN 2000 - pat[n].u ELSE pat[n].u)
             /\ (10 - p.dim_fraction) * 1000 <= pat[n].scale
             /\ pat[n].scale <= (10 + p.dim_fraction) * 1000
             /\ p.dim_fraction = 0 => pat[n].scale = 10000
        /\ TwoEyes => pat[1].scale + pat[2].scale = 20000

\* C2: a stimulus dimension that is not listed in dims does not vary in the
\* generated input: without 'or' the orientation does not depend on its
\* random draw, without 'od' the two eyes have the same brightness, and
\* without 'dy' the two eyes have the same position.
C2_DimsSelectWhatVaries ==
    Generated =>
        /\ "or" \notin p.dims =>
             \A n \in 1..Len(eyes) : \A d \in 0..DrawSteps :
                LET g == Generator(inputs[n], shown) IN
                  Evaluate(g, [rng EXCEPT ![g.oseed] = d]).orientation = pat[n].orientation
        /\ ("od" \notin p.dims /\ TwoEyes) => pat[1].scale = pat[2].scale
        /\ ("dy" \notin p.dims /\ TwoEyes) => pat[1].x = pat[2].x

LGNSheets == {e \o "LGN" \o l : e \in Range(eyes), l \in Range(center_polarities)}

\* the projections between LGN sheets that arrive at sheet dest
LateralInto(dest) ==
    SelectSeq(projections, LAMBDA c : c.dest = dest /\ c.src \in LGNSheets)

\* C3: with gain_control, every LGN sheet e+'LGN'+l receives exactly one
\* lateral gain-control projection from each eye's LGN sheet of polarity l
\* and none from the other polarity, and their strengths sum to 0.6
\* whether there is one eye or two.
C3_GainControlPooled ==
    (prog = "gcal_od" /\ pc = "loaded" /\ p.gain_control) =>
        \A e \in Range(eyes), l \in Range(center_polarities) :
          LET lat == LateralInto(e \o "LGN" \o l) IN
            /\ Len(lat) = Len(eyes)
            /\ \A e2 \in Range(eyes) :
                 Cardinality({n \in 1..Len(lat) : lat[n].src = e2 \o "LGN" \o l
                                                  /\ lat[n].name = e2 \o "LateralGC"}) = 1
            /\ \A n \in 1..Len(lat) : lat[n].src \in {e2 \o "LGN" \o l : e2 \in Range(eyes)}
            /\ SumSeq(SelectStrength(lat)) = 600

C3_Witness ==
    /\ prog = "gcal_od" /\ pc = "loaded" /\ p.gain_control /\ TwoEyes
    /\ Len(LateralInto("RightLGNOff")) = 2

\* C4: there are two eyes, Left and Right, exactly when dims contains 'od'
\* or 'dy', and one unnamed eye otherwise; the sheets registered are one
\* Retina per eye, one LGN sheet per eye and polarity, and V1: 7 sheets
\* with two eyes, 4 with one, none registered twice.
C4_EyesAndSheets ==
    (prog = "gcal_od" /\ pc # "setup") =>
        /\ ("od" \in p.dims \/ "dy" \in p.dims) => eyes = <<"Left", "Right">>
        /\ ~("od" \in p.dims \/ "dy" \in p.dims) => eyes = <<"">>
        /\ Cardinality(Range(sheets)) = Len(sheets)
        /\ pc \in {"connect", "loaded"} =>
             /\ Range(sheets) = {e \o "Retina" : e \in Range(eyes)} \cup LGNSheets \cup {"V1"}
             /\ Len(sheets) = IF ("od" \in p.dims \/ "dy" \in p.dims) THEN 7 ELSE 4

C4_Witness ==
    /\ prog = "gcal_od" /\ pc = "loaded" /\ p.dims = {"dy"}
    /\ Len(sheets) = 7 /\ "LeftRetina" \in Range(sheets)

Retinas == {e \o "Retina" : e \in Range(eyes)}

\* the projections named 'Afferent' that arrive at sheet dest
AfferentInto(dest) ==
    SelectSeq(projections, LAMBDA c : c.dest = dest /\ c.name = "Afferent")

\* C14: every LGN sheet e+'LGN'+l receives exactly one projection named
\* 'Afferent', from the Retina of the same eye and never from the other
\* eye's, with centre-minus-surround weights for 'On' and
\* surround-minus-centre weights for 'Off'; each Retina has exactly two
\* outgoing projections.
C14_RetinaToLGNEyeSpecific ==
    (prog = "gcal_od" /\ pc = "loaded") =>
        /\ \A e \in Range(eyes), l \in Range(center_polarities) :
             LET aff == AfferentInto(e \o "LGN" \o l) IN
               /\ Len(aff) = 1
               /\ aff[1].src = e \o "Retina"
               /\ WeightsGenerator(aff[1].weights).operator = "subtract"
               /\ WeightsGenerator(aff[1].weights).generators =
                     IF l = "On" THEN <<"centerg", "surroundg">>
                                 ELSE <<"surroundg", "centerg">>
               /\ \A n \in 1..Len(projections) :
                     (projections[n].dest = e \o "LGN" \o l /\ projections[n].src \in Retinas)
                        => projections[n].src = e \o "Retina"
        /\ \A r \in Retinas :
             Cardinality({n \in 1..Len(projections) : projections[n].src = r}) = 2

C14_Witness ==
    /\ prog = "gcal_od" /\ pc = "loaded" /\ TwoEyes
    /\ AfferentInto("RightLGNOff")[1].src = "RightRetina"
    /\ AfferentInto("LeftLGNOn")[1].weights = "on_weights"

\* the projections that arrive at V1 from another sheet, and from V1 itself
V1Afferents == SelectSeq(projections, LAMBDA c : c.dest = "V1" /\ c.src # "V1")

V1Laterals == SelectSeq(projections, LAMBDA c : c.dest = "V1" /\ c.src = "V1")

\* C15: V1 receives exactly num_aff = len(center_polarities)*len(eyes)
\* afferent projections (4 with two eyes, 2 with one), one from each LGN
\* sheet and none from a Retina, and exactly two V1-to-V1 lateral
\* projections; 'LateralExcitatory' has strength >= 0 and
\* 'LateralInhibitory' has strength -1.0*inh_strength <= 0.
C15_V1Projections ==
    (prog = "gcal_od" /\ pc = "loaded") =>
        /\ num_aff = Len(center_polarities) * Len(eyes)
        /\ num_aff = IF TwoEyes THEN 4 ELSE 2
        /\ Len(V1Afferents) = num_aff
        /\ \A s \in LGNSheets :
             Cardinality({n \in 1..Len(V1Afferents) : V1Afferents[n].src = s}) = 1
        /\ \A n \in 1..Len(V1Afferents) :
             V1Afferents[n].src \in LGNSheets /\ V1Afferents[n].src \notin Retinas
        /\ Len(V1Laterals) = 2
        /\ \E n, m \in 1..2 :
             /\ V1Laterals[n].name = "LateralExcitatory"
             /\ V1Laterals[n].strength >= 0
             /\ V1Laterals[m].name = "LateralInhibitory"
             /\ V1Laterals[m].strength = (-100) * p.inh_strength
             /\ V1Laterals[m].strength <= 0

C15_Witness ==
    /\ prog = "gcal_od" /\ pc = "loaded" /\ TwoEyes
    /\ Len(V1Afferents) = 4 /\ Len(V1Laterals) = 2
    /\ p.inh_strength = 14 /\ p.exc_strength = 0

(***************************************************************************)
(* Properties of som_retinotopy.ipynb                                      *)
(***************************************************************************)
\* index of the code cell that starts at a line of the notebook
CellAt(line) == CHOOSE n \in 1..Len(Cells) : Cells[n].line = line

Som == prog = "som_retinotopy"

AllUnits(d) == 0..(d - 1)

\* C7: the Retina is fully connected to V1: the connection-field bounds
\* of radius 1.0 around any position of the V1 sheet contain the whole
\* Retina sheet, so every V1 unit has a weight from every one of the
\* retina_density x retina_density Retina units.
C7_FullyConnected ==
    /\ \A x \in -120..120 : CFBounds(x).lo <= -120 /\ 120 <= CFBounds(x).hi
    /\ (Som /\ cell > CellAt(161)) =>
         /\ DOMAIN cfs = AllUnits(p.cortex_density) \X AllUnits(p.cortex_density)
         /\ \A u \in DOMAIN cfs :
              /\ cfs[u].rows = AllUnits(p.retina_density)
              /\ cfs[u].cols = AllUnits(p.retina_density)
              /\ Cardinality(cfs[u].rows) * Cardinality(cfs[u].cols)
                    = p.retina_density * p.retina_density

C7_Witness ==
    /\ Som /\ cell > CellAt(161)
    /\ p.retina_density = 24 /\ p.cortex_density = 40
    /\ Cardinality(cfs[<<0, 39>>].rows) * Cardinality(cfs[<<0, 39>>].cols) = 576

\* C8: running the cells in order from time 0, the simulation time is 1
\* after c(times=[1]), 5 after topo.sim.run(4) and 250 after
\* topo.sim.run(245), and no other cell up to there advances it.
C8_TimeAfterFirstCells ==
    Som =>
        /\ cell <= CellAt(400) => time = 0
        /\ (CellAt(400) < cell /\ cell <= CellAt(478)) => time = 1
        /\ (CellAt(478) < cell /\ cell <= CellAt(513)) => time = 5
        /\ cell = CellAt(513) + 1 => time = 250

C8_Witness == Som /\ cell = CellAt(513) + 1 /\ time = 250 /\ Len(measured) = 1

Every250To5000 == [i \in 1..20 |-> 250 * i]

\* C9: the first batch of measurement times, topo.sim.time()*i for i in
\* 1..20, is exactly 250, 500, ..., 5000, which it is only because the
\* simulation time is 250 when that cell runs; the simulation time is 5000
\* after the batch is collected.
C9_FirstBatch ==
    /\ \A t \in 0..500 : TimesAt5000(t) = Every250To5000 <=> t = 250
    /\ Som =>
         /\ cell = CellAt(532) => time = 250
         /\ (CellAt(532) < cell /\ cell <= CellAt(623)) => times = Every250To5000
         /\ (CellAt(544) < cell /\ cell <= CellAt(635) /\ k = 0) =>
               /\ time = 5000
               /\ [i \in 1..20 |-> measured[i + 1].time] = Every250To5000

C9_Witness ==
    /\ Som /\ cell = CellAt(544) + 1 /\ time = 5000
    /\ Len(measured) = 21 /\ times[20] = 5000

RequestedTimes ==
    <<1>> \o [i \in 1..20 |-> 250 * i] \o [i \in 1..20 |-> 5000 + 250 * i]
          \o [i \in 1..40 |-> 10000 + 500 * i]

\* C10: over the whole notebook the times the Collector is asked to
\* measure at (1; 250..5000 by 250; 5250..10000 by 250; 10500..30000 by
\* 500) are strictly increasing, none is earlier than the simulation time
\* when it is requested, 81 measurements are taken, and the simulation
\* time at the end is 30000.
C10_MeasurementSchedule ==
    Som =>
        /\ \A i, j \in 1..Len(measured) :
             i < j => measured[i].requested < measured[j].requested
        /\ \A i \in 1..Len(measured) :
             /\ measured[i].at <= measured[i].requested
             /\ measured[i].time = measured[i].requested
             /\ measured[i].requested = RequestedTimes[i]
        /\ (AtCell("collect") /\ k = 0) =>
             \A i \in 1..Len(CollectTimes(Cells[cell].arg)) :
                time <= CollectTimes(Cells[cell].arg)[i]
        /\ Len(measured) <= 81
        /\ cell = Len(Cells) + 1 => (Len(measured) = 81 /\ time = 30000)

C10_Witness ==
    /\ Som /\ cell = Len(Cells) + 1
    /\ Len(measured) = 81 /\ measured[81].requested = 30000

ModelLoaded == Som /\ cell > CellAt(161)

C12_SeparateStreams ==
    ModelLoaded =>
      /\ XGen(p).seed = p.input_seed /\ YGen(p).seed = p.input_seed
      /\ XGen(p).name # YGen(p).name
      /\ StreamKey(XGen(p)) # StreamKey(YGen(p))
      /\ Cardinality(Streams(p)) = 2
      /\ \A s \in InputSeeds \ {p.input_seed} :
            Streams([p EXCEPT !.input_seed = s]) \cap Streams(p) = {}
      /\ \A e \in events :
            e.kind = "deliver" =>
               /\ e.pattern[1] \in -120..120
               /\ e.pattern[2] \in -120..120

\* x is not forced to equal y: a pattern with x # y is on its way to V1
C12_Witness ==
    /\ ModelLoaded
    /\ p.input_seed = 1
    /\ \E e \in events : e.kind = "deliver" /\ e.pattern[1] # e.pattern[2]

\* C16: the i-th pattern is generated at (i-1)+0.05 and received at
\* (i-1)+0.10; whenever the clock stands at an integer time T, T patterns
\* have been generated, T have reached V1 and none is in flight; that is 1
\* after the cell of the first iteration and 5 after topo.sim.run(4).
C16_OnePresentationPerIteration ==
    ModelLoaded =>
      /\ frac \in {0, 5, 10}
      /\ frac = 0 =>
            /\ generated = time /\ received = time
            /\ \A e \in events : e.kind # "deliver"
      /\ frac = 5 =>
            /\ generated = time + 1 /\ received = time
            /\ \E e \in events : e.kind = "deliver" /\ e.at = time * 100 + 10
      /\ frac = 10 => generated = time + 1 /\ received = time + 1
      /\ \A e \in events : e.kind = "generate" => e.at = generated * 100 + 5
      /\ Cardinality({e \in events : e.kind = "deliver"}) = generated - received
      /\ cell = CellAt(400) + 1 => time = 1 /\ received = 1
      /\ cell = CellAt(478) + 1 => time = 5 /\ received = 5

C16_Witness ==
    /\ ModelLoaded
    /\ cell = CellAt(478) + 1
    /\ time = 5 /\ frac = 0 /\ until = -1
    /\ received = 5

====
